---- MODULE Spec2Model ----
(***************************************************************************)
(* A model of shapeshifter-dispatcher: the pt_socks5 front end             *)
(* (ClientSetup, ServerSetup, the accept loops, the handlers, copyLoop)    *)
(* and main (argument validation, determineMode, getClientNames,           *)
(* getServerInfo, getServerBindaddrs).                                     *)
(*                                                                         *)
(* A Go string that the program splits is a sequence of tokens: a token is *)
(* a separator character ("," or "-") or a run of characters that holds    *)
(* none.  "obfs2-127.0.0.1:2222" is <<"obfs2", "-", "127.0.0.1:2222">>, and *)
(* the string "obfs2" is <<"obfs2">>.  The empty string is <<>>.           *)
(***************************************************************************)
EXTENDS Integers, Sequences, FiniteSets, TLC

VARIABLES
    \* ---- package pt_socks5 ----
    phase,      \* "args" before the setup routine runs, "serving" after it returned
    proc,       \* "running", or "panicked" once a goroutine panics
    cfg,        \* the arguments of ClientSetup / ServerSetup
    launched,   \* the setup routine's first result
    listeners,  \* the setup routine's second result: indices into lns
    ptOut,      \* the lines written to the PT status protocol, in order
    lns,        \* every listener opened, with its accept loop
    sess,       \* every handler goroutine spawned, in order of acceptance
    \* ---- package main ----
    mpc,        \* main's position
    flags,      \* the parsed command line and the environment's answers
    mainst      \* main's locals and the process's exit

vars == <<phase, proc, cfg, launched, listeners, ptOut, lns, sess, mpc, flags, mainst>>
socksVars == <<phase, proc, cfg, launched, listeners, ptOut, lns, sess>>
mainVars == <<mpc, flags, mainst>>

\* ------------------------------------------------------------------ bounds
MaxConns == 1       \* connections accepted in one run

\* ------------------------------------------------------- strings (tokens)
RECURSIVE IndexOf(_, _, _)
\* strings.Index from position i: the first position of sep in s, 0 if none
IndexOf(s, sep, i) ==
    IF i > Len(s) THEN 0
    ELSE IF s[i] = sep THEN i
    ELSE IndexOf(s, sep, i + 1)

RECURSIVE Split(_, _)
\* strings.Split(s, sep): Split("", sep) is one empty string
Split(s, sep) ==
    LET i == IndexOf(s, sep, 1)
    IN IF i = 0 THEN <<s>>
       ELSE <<SubSeq(s, 1, i - 1)>> \o Split(SubSeq(s, i + 1, Len(s)), sep)

\* strings.SplitN(s, sep, 2): cut at the first sep only
SplitN2(s, sep) ==
    LET i == IndexOf(s, sep, 1)
    IN IF i = 0 THEN <<s>>
       ELSE <<SubSeq(s, 1, i - 1), SubSeq(s, i + 1, Len(s))>>

Range(f) == {f[i] : i \in DOMAIN f}

\* ------------------------------------------------- transport options
\* The option strings of the model.  "" is the empty string, "{" is text that
\* is not JSON, the others are JSON objects with the keys given in OptionKeys.
OptionStrings == {"", "{", "shadowOpts", "obfs4Opts", "obfs4OptsBadIat", "obfs4OptsNoIat"}

\* The JSON object an option string decodes to: key -> value.
OptionKeys(options) ==
    CASE options = "shadowOpts" -> [k \in {"password", "cipherName"} |-> "v"]
      [] options = "obfs4Opts" -> [k \in {"cert", "iat-mode"} |-> IF k = "cert" THEN "v" ELSE "0"]
      [] options = "obfs4OptsBadIat" -> [k \in {"cert", "iat-mode"} |-> IF k = "cert" THEN "v" ELSE "x"]
      [] options = "obfs4OptsNoIat" -> [k \in {"cert"} |-> "v"]
      [] OTHER -> [k \in {} |-> "v"]

\* pt.ParsePT2ClientParameters(options): the empty string is the empty Args
ParsePT2ClientParameters(options) ==
    IF options = "{" THEN [err |-> TRUE, args |-> [k \in {} |-> "v"]]
    ELSE [err |-> FALSE, args |-> OptionKeys(options)]

\* options2.ParseOptions(options)
ParseOptions(options) ==
    IF options = "{" THEN [err |-> TRUE, args |-> [k \in {} |-> "v"]]
    ELSE [err |-> FALSE, args |-> OptionKeys(options)]

\* strconv.Atoi on the values the options hold
Atoi(s) ==
    IF s \in {"0", "1", "2"} THEN [err |-> FALSE] ELSE [err |-> TRUE]

\* ------------------------------------------------------------ listeners
Addr(ip, port) == [ip |-> ip, port |-> port]

\* a listener with its accept loop: the goroutine started for it
NewListener(kind, name, addr) ==
    [kind |-> kind, name |-> name, addr |-> addr, open |-> TRUE,
     loop |-> "accepting", erred |-> FALSE]

\* net.Listen("tcp", addr): port 0 asks for a free port; a fixed port that an
\* open listener of this process holds, or that the environment refuses
\* (envFails), is an error
netListen(addr, opened, envFails) ==
    IF envFails THEN [err |-> "refused by the environment", addr |-> addr]
    ELSE IF addr.port # 0 /\ \E i \in DOMAIN opened : opened[i].open /\ opened[i].addr = addr
         THEN [err |-> "address already in use", addr |-> addr]
    ELSE IF addr.port = 0 THEN [err |-> "nil", addr |-> Addr(addr.ip, 40000 + Len(opened))]
    ELSE [err |-> "nil", addr |-> addr]

\* ---------------------------------------------------------- ClientSetup
\* the state ClientSetup and ServerSetup build up
SetupState(opened) ==
    [launched |-> FALSE, listeners |-> <<>>, lns |-> opened, ptOut |-> <<>>]

\* a line of the PT status protocol: pt.Cmethod, pt.CmethodError(name, err),
\* pt.CmethodsDone, pt.SmethodsDone
StatusLine(line, name, err) == [line |-> line, name |-> name, err |-> err]

\* one iteration of ClientSetup's loop, for names[i]
ClientSetupStep(st, name, socksAddr, envFails) ==
    LET r == netListen(socksAddr, st.lns, envFails)
    IN IF r.err # "nil"
       THEN [st EXCEPT !.ptOut = Append(@, StatusLine("CMETHOD-ERROR", name, r.err))]
       ELSE [st EXCEPT !.lns = Append(@, NewListener("client", name, r.addr)),
                       !.ptOut = Append(@, StatusLine("CMETHOD", name, "nil")),
                       !.listeners = Append(@, Len(st.lns) + 1),
                       !.launched = TRUE]

RECURSIVE ClientSetupLoopStopsAtFailure(_, _, _, _, _)
\* ClientSetup's loop with break in the place of continue
ClientSetupLoopStopsAtFailure(st, i, names, socksAddr, envFail) ==
    IF i > Len(names) THEN st
    ELSE IF netListen(socksAddr, st.lns, i \in envFail).err # "nil"
         THEN ClientSetupStep(st, names[i], socksAddr, i \in envFail)
    ELSE ClientSetupLoopStopsAtFailure(ClientSetupStep(st, names[i], socksAddr, i \in envFail),
                                       i + 1, names, socksAddr, envFail)

RECURSIVE ClientSetupLoop(_, _, _, _, _)
ClientSetupLoop(st, i, names, socksAddr, envFail) ==
    IF i > Len(names) THEN st
    ELSE ClientSetupLoop(ClientSetupStep(st, names[i], socksAddr, i \in envFail),
                         i + 1, names, socksAddr, envFail)

\* ClientSetup(socksAddr, ptClientProxy, names, options); envFail is the set of
\* positions in names at which the environment refuses the bind
ClientSetup(socksAddr, names, envFail) ==
    LET st == ClientSetupLoop(SetupState(<<>>), 1, names, socksAddr, envFail)
    IN [st EXCEPT !.ptOut = Append(@, StatusLine("CMETHODS DONE", <<>>, "nil"))]

\* ---------------------------------------------------------- ServerSetup
HasArg(args, key) == key \in DOMAIN args

\* the switch on the transport name: "listen" when a listen function was
\* bound, "return" for the bare return (launched and listeners as they are),
\* "returnFalseNil" for return false, nil
ServerTransport(name, args) ==
    CASE name = <<"obfs2">> -> "listen"
      [] name = <<"obfs4">> ->
            IF HasArg(args, "cert")
            THEN IF HasArg(args, "iat-mode")
                 THEN IF Atoi(args["iat-mode"]).err THEN "listen" ELSE "return"
                 ELSE "return"
            ELSE "return"
      [] name = <<"replicant">> ->
            IF ~HasArg(args, "config") THEN "returnFalseNil" ELSE "listen"
      [] name = <<"Dust">> ->
            IF ~HasArg(args, "idPath") THEN "returnFalseNil" ELSE "listen"
      [] name = <<"meeklite">> ->
            IF ~HasArg(args, "Url") THEN "returnFalseNil"
            ELSE IF ~HasArg(args, "Front") THEN "returnFalseNil" ELSE "listen"
      [] name = <<"shadow">> ->
            IF ~HasArg(args, "password") THEN "returnFalseNil"
            ELSE IF ~HasArg(args, "cipherName") THEN "returnFalseNil" ELSE "listen"
      [] OTHER -> "return"

RECURSIVE ServerSetupLoop(_, _, _, _)
\* the loop over ptServerInfo.Bindaddrs, from position i; the listen function
\* of a transport returns a listener (it has no error result)
ServerSetupLoop(st, i, bindaddrs, options) ==
    IF i > Len(bindaddrs)
    THEN [st EXCEPT !.ptOut = Append(@, StatusLine("SMETHODS DONE", <<>>, "nil"))]
    ELSE LET name == bindaddrs[i].MethodName
             parsed == ParsePT2ClientParameters(options)
             how == ServerTransport(name, parsed.args)
         IN IF parsed.err THEN st
            ELSE IF how = "return" THEN st
            ELSE IF how = "returnFalseNil"
                 THEN [st EXCEPT !.launched = FALSE, !.listeners = <<>>]
            ELSE ServerSetupLoop(
                    [st EXCEPT !.lns = Append(@, NewListener("server", name, bindaddrs[i].Addr)),
                               !.listeners = Append(@, Len(st.lns) + 1),
                               !.launched = TRUE],
                    i + 1, bindaddrs, options)

\* ServerSetup(ptServerInfo, options)
ServerSetup(ptServerInfo, options) ==
    ServerSetupLoop(SetupState(<<>>), 1, ptServerInfo.Bindaddrs, options)

\* ------------------------------------------------------ getClientNames
\* transports.Transports(): every transport the dispatcher knows
Transports == << <<"obfs2">>, <<"shadow">> >>

\* pt_extras.PtGetProxy(proxy): no proxy for the empty string, an error for
\* a URL whose scheme is not one of the supported proxy schemes
PtGetProxy(proxy) ==
    IF proxy = "" THEN [err |-> FALSE, url |-> "nil"]
    ELSE IF proxy \in {"socks5://127.0.0.1:9050"} THEN [err |-> FALSE, url |-> proxy]
    ELSE [err |-> TRUE, url |-> "nil"]

\* getClientNames(ptversion, transportsList, proxy); ptversion and
\* transportsList come from flag.String and are never nil
getClientNames(transportsList, proxy) ==
    LET MethodNames == IF transportsList = <<"*">> THEN Transports
                       ELSE Split(transportsList, ",")
        p == PtGetProxy(proxy)
    IN IF p.err THEN [err |-> TRUE, clientProxy |-> "nil", names |-> <<>>]
       ELSE [err |-> FALSE, clientProxy |-> p.url, names |-> MethodNames]

\* ------------------------------------------------------------- sessions
ErrChanCap == 2     \* make(chan error, 2)

\* the nil Optimizer.Transport
NilTransport == [isNil |-> TRUE, name |-> <<>>, dialer |-> "nil"]

\* pt_extras.ArgsToDialer(target, name, args, dialer): the transport bound to
\* dialer, or no transport and an error when name is not a client transport
\* or one of its required parameters is missing from args
ArgsToDialer(name, args, dialer) ==
    LET required == CASE name = <<"obfs2">> -> {}
                      [] name = <<"shadow">> -> {"password", "cipherName"}
                      [] name = <<"obfs4">> -> {"cert", "iat-mode"}
                      [] OTHER -> {"unknown transport"}
    IN IF required \subseteq DOMAIN args
       THEN [err |-> FALSE, transport |-> [isNil |-> FALSE, name |-> name, dialer |-> dialer]]
       ELSE [err |-> TRUE, transport |-> NilTransport]

\* proxy.FromURL(proxyURI, proxy.Direct)
FromURL(proxyURI) ==
    IF proxyURI \in {"socks5://127.0.0.1:9050"}
    THEN [err |-> FALSE, dialer |-> proxyURI]
    ELSE [err |-> TRUE, dialer |-> "nil"]

\* the goroutine go clientHandler(...) / go serverHandler(...) starts.  conns
\* holds the handler's two net.Conn: the accepted one, and the one it dials
\* ("none" until the dial succeeds); a connection is "open" until the program
\* calls Close on it.
NewSession(kind, ln, name) ==
    [kind |-> kind, ln |-> ln, name |-> name, pc |-> "start",
     conns |-> [accepted |-> "open", dialed |-> "none"],
     args |-> [k \in {} |-> "v"],
     replies |-> <<>>, transport |-> NilTransport, dialer |-> "nil",
     ep |-> [a |-> "live", b |-> "live"],
     task |-> [ab |-> "idle", ba |-> "idle"],
     res |-> [ab |-> "none", ba |-> "none"],
     errChan |-> <<>>, wg |-> 0, ret |-> "none"]

\* a reply on the front-end protocol: its code and whether the write worked
Reply(code, ok) == [code |-> code, sent |-> ok]

\* socks5.ErrorToReplyCode(err): never the success code
ErrorToReplyCode(err) == "ReplyGeneralFailure"

\* clientHandler up to transport.Dial: the handshake, the options, the
\* transport and the proxy dialer.  hsOk: the SOCKS handshake succeeds.
ClientPrepare(s, options, proxyURI, hsOk) ==
    LET parsed == ParseOptions(options)
        dialer0 == "nil"
        resolved == ArgsToDialer(s.name, parsed.args, dialer0)
        px == FromURL(proxyURI)
    IN IF ~hsOk THEN [s EXCEPT !.pc = "done"]
       ELSE IF parsed.err THEN [s EXCEPT !.pc = "done"]
       ELSE IF proxyURI # "nil" /\ px.err
            THEN [s EXCEPT !.pc = "done",
                           !.transport = resolved.transport,
                           !.replies = Append(@, Reply("ReplyGeneralFailure", TRUE))]
       ELSE [s EXCEPT !.pc = "dial",
                      !.args = parsed.args,
                      !.transport = resolved.transport,
                      !.dialer = IF proxyURI # "nil" THEN px.dialer ELSE dialer0]

\* copyLoop's start: the channel, the WaitGroup and the two goroutines
CopyLoopStart(s) ==
    [s EXCEPT !.pc = "relay", !.errChan = <<>>, !.wg = 2,
              !.task = [ab |-> "copy", ba |-> "copy"]]

\* clientHandler entering copyLoop whatever socksReq.Reply returned
ClientReplyStepUnchecked(s, replyOk) ==
    CopyLoopStart([s EXCEPT !.replies = Append(@, Reply("ReplySucceeded", replyOk))])

\* clientHandler after a successful Dial: the success reply, then copyLoop
ClientReplyStep(s, replyOk) ==
    LET replied == [s EXCEPT !.replies = Append(@, Reply("ReplySucceeded", replyOk))]
    IN IF ~replyOk THEN [replied EXCEPT !.pc = "done"]
       ELSE CopyLoopStart(replied)

\* the source and the destination of a copy direction: "ab" is io.Copy(b, a)
Src(dir) == IF dir = "ab" THEN "a" ELSE "b"
Dst(dir) == IF dir = "ab" THEN "b" ELSE "a"

\* what io.Copy(dst, src) can return now: nothing while src is live and dst
\* takes the writes
CopyResults(s, dir) ==
    IF s.ep[Src(dir)] = "eof" THEN {"nil"}
    ELSE IF s.ep[Src(dir)] = "err" THEN {"read error"}
    ELSE IF s.ep[Dst(dir)] = "err" THEN {"write error"}
    ELSE {}

\* copyLoop returning the value sent last in the place of the first
CopyLoopReturnLast(s) ==
    [s EXCEPT !.pc = "done",
              !.ret = IF Len(s.errChan) > 0 THEN s.errChan[Len(s.errChan)] ELSE "nil",
              !.errChan = IF Len(s.errChan) > 0 THEN SubSeq(s.errChan, 1, Len(s.errChan) - 1)
                          ELSE s.errChan]

\* wg.Wait() is over: the first value of the channel, or nil
CopyLoopReturn(s) ==
    [s EXCEPT !.pc = "done",
              !.ret = IF Len(s.errChan) > 0 THEN Head(s.errChan) ELSE "nil",
              !.errChan = IF Len(s.errChan) > 0 THEN Tail(s.errChan) ELSE s.errChan]

\* ================================================================= main
\* the proxy modes (const ... iota)
socks5 == 0
transparentTCP == 1
transparentUDP == 2
stunUDP == 3

\* determineMode testing isTransparent before isTransparent && isUDP
determineModeTransparentFirst(isTransparent, isUDP) ==
    IF isTransparent THEN transparentTCP
    ELSE IF isTransparent /\ isUDP THEN transparentUDP
    ELSE IF isUDP THEN stunUDP
    ELSE socks5

\* determineMode(isTransparent, isUDP)
determineMode(isTransparent, isUDP) ==
    IF isTransparent /\ isUDP THEN transparentUDP
    ELSE IF isTransparent THEN transparentTCP
    ELSE IF isUDP THEN stunUDP
    ELSE socks5

\* checkIsClient(client, server): its error is always nil
checkIsClient(client, server) ==
    IF client THEN TRUE ELSE IF server THEN FALSE ELSE TRUE

\* no *net.TCPAddr
NilAddr == Addr("nil", 0)

\* pt.ResolveAddr(s): the address of an "ip:port" string, an error for the
\* empty string, for a host name and for a string without a port
ResolveAddr(s) ==
    CASE s = <<"127.0.0.1:2222">> -> [err |-> FALSE, addr |-> Addr("127.0.0.1", 2222)]
      [] s = <<"127.0.0.1:2223">> -> [err |-> FALSE, addr |-> Addr("127.0.0.1", 2223)]
      [] s = <<"127.0.0.1:3333">> -> [err |-> FALSE, addr |-> Addr("127.0.0.1", 3333)]
      [] s = <<"127.0.0.1:4444">> -> [err |-> FALSE, addr |-> Addr("127.0.0.1", 4444)]
      [] OTHER -> [err |-> TRUE, addr |-> NilAddr]

\* pt.FilterBindaddrs(addrs, methodNames): the bindaddrs whose method is named
FilterBindaddrs(addrs, methodNames) ==
    SelectSeq(addrs, LAMBDA ba : ba.MethodName \in Range(methodNames))

\* an error value of getServerBindaddrs: what failed and the text it quotes
BindError(kind, entry) == [kind |-> kind, entry |-> entry]
NoError == BindError("nil", <<>>)

RECURSIVE ParseBindaddrsSkipsMalformed(_, _, _)
\* the loop of getServerBindaddrs with continue in the place of the error
\* return for an entry without "-"
ParseBindaddrsSkipsMalformed(specs, i, result) ==
    IF i > Len(specs) THEN [err |-> NoError, result |-> result]
    ELSE LET parts == SplitN2(specs[i], "-")
         IN IF Len(parts) # 2
            THEN ParseBindaddrsSkipsMalformed(specs, i + 1, result)
            ELSE LET r == ResolveAddr(parts[2])
                 IN IF r.err
                    THEN [err |-> BindError("unresolvable address", specs[i]), result |-> <<>>]
                    ELSE ParseBindaddrsSkipsMalformed(specs, i + 1,
                            Append(result, [MethodName |-> parts[1], Addr |-> r.addr]))

RECURSIVE ParseBindaddrsKeepsParsed(_, _, _)
\* the loop of getServerBindaddrs returning, with the error, the bindaddrs
\* parsed before the failing entry (return result, err)
ParseBindaddrsKeepsParsed(specs, i, result) ==
    IF i > Len(specs) THEN [err |-> NoError, result |-> result]
    ELSE LET parts == SplitN2(specs[i], "-")
         IN IF Len(parts) # 2
            THEN [err |-> BindError("doesn't contain \"-\"", specs[i]), result |-> result]
            ELSE LET r == ResolveAddr(parts[2])
                 IN IF r.err
                    THEN [err |-> BindError("unresolvable address", specs[i]), result |-> result]
                    ELSE ParseBindaddrsKeepsParsed(specs, i + 1,
                            Append(result, [MethodName |-> parts[1], Addr |-> r.addr]))

RECURSIVE ParseBindaddrs(_, _, _)
\* the loop of getServerBindaddrs over strings.Split(serverBindaddr, ","),
\* from position i, with the bindaddrs parsed so far
ParseBindaddrs(specs, i, result) ==
    IF i > Len(specs) THEN [err |-> NoError, result |-> result]
    ELSE LET parts == SplitN2(specs[i], "-")
         IN IF Len(parts) # 2
            THEN [err |-> BindError("doesn't contain \"-\"", specs[i]), result |-> <<>>]
            ELSE LET r == ResolveAddr(parts[2])
                 IN IF r.err
                    THEN [err |-> BindError("unresolvable address", specs[i]), result |-> <<>>]
                    ELSE ParseBindaddrs(specs, i + 1,
                            Append(result, [MethodName |-> parts[1], Addr |-> r.addr]))

\* pt.ParsePT2ServerParameters(options): an error for text that is not JSON
ParsePT2ServerParameters(options) ==
    IF options = "{" THEN [err |-> TRUE] ELSE [err |-> FALSE]

\* getServerBindaddrs(bindaddrList, options, transports); transports comes
\* from flag.String and is never nil
getServerBindaddrs(bindaddrList, options, transports) ==
    IF options # "" /\ ParsePT2ServerParameters(options).err
    THEN [err |-> BindError("-options", <<options>>), result |-> <<>>]
    ELSE LET parsed == ParseBindaddrs(Split(bindaddrList, ","), 1, <<>>)
         IN IF parsed.err # NoError THEN parsed
            ELSE [err |-> NoError,
                  result |-> FilterBindaddrs(parsed.result, Split(transports, ","))]

\* the zero pt.ServerInfo
EmptyServerInfo ==
    [Bindaddrs |-> <<>>, OrAddr |-> NilAddr, ExtendedOrAddr |-> NilAddr, AuthCookiePath |-> ""]

\* getServerInfo(bindaddrList, options, transportList, target, extorport, authcookie)
getServerInfo(bindaddrList, options, transportList, target, extorport, authcookie) ==
    LET b == getServerBindaddrs(bindaddrList, options, transportList)
        or == ResolveAddr(target)
        ext == ResolveAddr(extorport)
        info1 == [EmptyServerInfo EXCEPT !.Bindaddrs = b.result, !.OrAddr = or.addr]
        info2 == IF authcookie # "" THEN [info1 EXCEPT !.AuthCookiePath = authcookie] ELSE info1
    IN IF b.err # NoError THEN EmptyServerInfo
       ELSE IF or.err THEN info1
       ELSE IF extorport = <<>> THEN info2
       ELSE [info2 EXCEPT !.ExtendedOrAddr = ext.addr]

\* the options file: os.Stat fails for a file that is not there, else the
\* options become the file's contents
OptionsAfterFile(options, optionsFile) ==
    CASE optionsFile = "" -> options
      [] optionsFile = "shadow.json" -> "shadowOpts"
      [] OTHER -> options

\* main's locals and the way the process ended
MainState ==
    [exited |-> FALSE, code |-> 0, how |-> "running", isClient |-> TRUE, mode |-> socks5,
     options |-> "", setup |-> "none", launched |-> FALSE,
     bindaddrs |-> [err |-> NoError, result |-> <<>>], info |-> EmptyServerInfo]

\* os.Exit(code), golog.Fatal (which exits with 1), and return from main
Exit(st, code) == [st EXCEPT !.exited = TRUE, !.code = code, !.how = "os.Exit"]
Fatal(st, msg) == [st EXCEPT !.exited = TRUE, !.code = 1, !.how = msg]
Return(st, msg) == [st EXCEPT !.exited = TRUE, !.code = 0, !.how = msg]

\* the test of line 160 with a single operand
OptionsConflictInlineOnly(options, optionsFile) == options # "" /\ optionsFile = ""

\* main: *options != "" && *optionsFile != ""
OptionsConflict(options, optionsFile) == options # "" /\ optionsFile # ""

\* main from flag.Parse to "Finished validation of command line arguments"
Validate(f) ==
    LET isClient == checkIsClient(f.clientMode, f.serverMode)
        mode == determineMode(f.transparent, f.udp)
        st == [MainState EXCEPT !.isClient = isClient,
                                !.options = OptionsAfterFile(f.options, f.optionsFile)]
    IN IF f.showVer THEN Exit(MainState, 0)
       ELSE IF ~f.stateDirOk
            THEN Fatal([MainState EXCEPT !.isClient = isClient], "No state directory")
       ELSE IF OptionsConflict(f.options, f.optionsFile)
            THEN Fatal([MainState EXCEPT !.isClient = isClient],
                       "cannot specify -options and -optionsFile at the same time")
       ELSE IF ~f.targetValid THEN Return(st, "validationError")
       ELSE IF isClient /\ f.target # <<>>
            THEN Return([st EXCEPT !.mode = mode], "cannot use -target in client mode")
       ELSE IF ~isClient /\ f.bindAddr = <<>>
            THEN Return([st EXCEPT !.mode = mode], "mode requires a bindaddr")
       ELSE [st EXCEPT !.mode = mode, !.how = "validated"]

\* main after a setup routine returned: os.Exit(-1) when nothing was launched
AfterSetup(st, routine, isLaunched) ==
    LET called == [st EXCEPT !.setup = routine, !.launched = isLaunched]
    IN IF ~isLaunched THEN Exit(called, -1)
       ELSE [called EXCEPT !.how = "accepting connections"]


\* ============================================================ pt_socks5
\* the arguments main can hand to ClientSetup
ClientConfigs ==
    {[role |-> "client", socksAddr |-> a, proxyURI |-> g.clientProxy, names |-> g.names,
      options |-> o, Bindaddrs |-> <<>>] :
        a \in {Addr("127.0.0.1", 0), Addr("127.0.0.1", 1080)},
        g \in {getClientNames(t, x) :
                 t \in {<<"obfs2", ",", "shadow">>, <<"obfs2">>, <<"bogus", ",", "obfs2">>},
                 x \in {"", "socks5://127.0.0.1:9050"}},
        o \in {"", "shadowOpts"}}

Bindaddr(name, port) == [MethodName |-> name, Addr |-> Addr("127.0.0.1", port)]

\* the arguments main can hand to ServerSetup
ServerConfigs ==
    {[role |-> "server", socksAddr |-> Addr("127.0.0.1", 0), proxyURI |-> "nil", names |-> <<>>,
      options |-> o, Bindaddrs |-> b] :
        o \in {"", "shadowOpts", "obfs4Opts", "obfs4OptsBadIat"},
        b \in {<< Bindaddr(<<"obfs2">>, 2222) >>,
               << Bindaddr(<<"obfs2">>, 2222), Bindaddr(<<"shadow">>, 2223) >>,
               << Bindaddr(<<"shadow">>, 2223), Bindaddr(<<"obfs2">>, 2222) >>,
               << Bindaddr(<<"obfs4">>, 2224), Bindaddr(<<"obfs2">>, 2222) >>,
               << Bindaddr(<<"bogus">>, 2225) >>}}

\* the configurations whose listeners, accept loops and sessions are followed
ServingConfigs ==
    {c \in ClientConfigs : /\ c.names \in {<< <<"obfs2">>, <<"shadow">> >>, << <<"bogus">>, <<"obfs2">> >>}
                           /\ c.socksAddr.port = 0
                           /\ c.options = ""}
    \cup {c \in ServerConfigs : /\ c.options = "shadowOpts"
                               /\ Len(c.Bindaddrs) = 2 /\ c.Bindaddrs[1].MethodName = <<"obfs2">>}

SocksInit ==
    /\ phase = "args"
    /\ proc = "running"
    /\ launched = FALSE
    /\ listeners = <<>>
    /\ ptOut = <<>>
    /\ lns = <<>>
    /\ sess = <<>>

MainIdle ==
    /\ mpc = "idle"
    /\ flags = <<>>
    /\ mainst = <<>>

Init == SocksInit /\ cfg \in ServingConfigs /\ MainIdle

\* the setup routines alone, over every configuration
SetupInit == SocksInit /\ cfg \in ClientConfigs \cup ServerConfigs /\ MainIdle

Running == proc = "running" /\ phase = "serving"

\* main calls pt_socks5.ClientSetup
ClientSetupCall ==
    /\ phase = "args" /\ proc = "running" /\ cfg.role = "client"
    /\ \E envFail \in SUBSET (1 .. Len(cfg.names)) :
         LET st == ClientSetup(cfg.socksAddr, cfg.names, envFail)
         IN /\ launched' = st.launched
            /\ listeners' = st.listeners
            /\ ptOut' = st.ptOut
            /\ lns' = st.lns
    /\ phase' = "serving"
    /\ UNCHANGED <<proc, cfg, sess, mainVars>>

\* main calls pt_socks5.ServerSetup
ServerSetupCall ==
    /\ phase = "args" /\ proc = "running" /\ cfg.role = "server"
    /\ LET st == ServerSetup([Bindaddrs |-> cfg.Bindaddrs], cfg.options)
       IN /\ launched' = st.launched
          /\ listeners' = st.listeners
          /\ ptOut' = st.ptOut
          /\ lns' = st.lns
    /\ phase' = "serving"
    /\ UNCHANGED <<proc, cfg, sess, mainVars>>

\* ln.Accept() returns a connection: go clientHandler / go serverHandler
AcceptConn(i) ==
    /\ Running
    /\ lns[i].loop = "accepting" /\ lns[i].open
    /\ Len(sess) < MaxConns
    /\ sess' = Append(sess, NewSession(lns[i].kind, i, lns[i].name))
    /\ UNCHANGED <<phase, proc, cfg, launched, listeners, ptOut, lns, mainVars>>

\* the accept loop after ln.Accept() returned the error e: "temporary" is a
\* net.Error with Temporary(), "permanent" a net.Error without, "other" an
\* error that is no net.Error
AcceptLoopOnError(l, e) ==
    IF e = "permanent"
    THEN IF l.kind = "client"
         THEN [l EXCEPT !.open = FALSE, !.loop = "returned"]
         ELSE [l EXCEPT !.loop = "returned"]
    ELSE [l EXCEPT !.erred = TRUE]

AcceptError(i, e) ==
    /\ Running
    /\ lns[i].loop = "accepting"
    /\ lns' = [lns EXCEPT ![i] = AcceptLoopOnError(lns[i], e)]
    /\ UNCHANGED <<phase, proc, cfg, launched, listeners, ptOut, sess, mainVars>>

\* the option strings a local application can embed in the SOCKS5
\* authentication field of its handshake
SocksFields == {"", "shadowOpts"}

\* clientHandler: socks5.Handshake to the line before transport.Dial, for a
\* handshake that succeeds or not (hsOk) and carries socksArgs in its
\* authentication field (socksReq.Args); the handler reads socksReq.Target
\* only, the arguments come from ParseOptions(options)
ClientHandshakeWith(n, hsOk, socksArgs) ==
    /\ Running
    /\ sess[n].kind = "client" /\ sess[n].pc = "start"
    /\ sess' = [sess EXCEPT ![n] = ClientPrepare(sess[n], cfg.options, cfg.proxyURI, hsOk)]
    /\ UNCHANGED <<phase, proc, cfg, launched, listeners, ptOut, lns, mainVars>>

ClientHandshake(n) ==
    \E hsOk \in BOOLEAN, socksArgs \in SocksFields : ClientHandshakeWith(n, hsOk, socksArgs)

\* clientHandler without the return of line 228: after a failed dial and the
\* failure reply it goes on to the success reply and copyLoop
ClientDialFallsThrough(n) ==
    /\ Running
    /\ sess[n].kind = "client" /\ sess[n].pc = "dial"
    /\ IF sess[n].transport.isNil
       THEN /\ proc' = "panicked"
            /\ UNCHANGED sess
       ELSE /\ \E dialOk \in BOOLEAN, replyOk \in BOOLEAN :
                 sess' = [sess EXCEPT ![n] =
                            IF dialOk THEN [@ EXCEPT !.pc = "reply", !.conns.dialed = "open"]
                            ELSE [@ EXCEPT !.pc = "reply",
                                           !.replies = Append(@, Reply(ErrorToReplyCode("nil"), replyOk))]]
            /\ UNCHANGED proc
    /\ UNCHANGED <<phase, cfg, launched, listeners, ptOut, lns, mainVars>>

\* clientHandler: transport.Dial(); a nil transport is a nil dereference,
\* and the panic of a goroutine ends the process
ClientDial(n) ==
    /\ Running
    /\ sess[n].kind = "client" /\ sess[n].pc = "dial"
    /\ IF sess[n].transport.isNil
       THEN /\ proc' = "panicked"
            /\ UNCHANGED sess
       ELSE /\ \E dialOk \in BOOLEAN, replyOk \in BOOLEAN :
                 sess' = [sess EXCEPT ![n] =
                            IF dialOk THEN [@ EXCEPT !.pc = "reply", !.conns.dialed = "open"]
                            ELSE [@ EXCEPT !.pc = "done",
                                           !.replies = Append(@, Reply(ErrorToReplyCode("nil"), replyOk))]]
            /\ UNCHANGED proc
    /\ UNCHANGED <<phase, cfg, launched, listeners, ptOut, lns, mainVars>>

\* clientHandler: socksReq.Reply(socks5.ReplySucceeded), then copyLoop
ClientReply(n) ==
    /\ Running
    /\ sess[n].kind = "client" /\ sess[n].pc = "reply"
    /\ \E replyOk \in BOOLEAN :
         sess' = [sess EXCEPT ![n] = ClientReplyStep(sess[n], replyOk)]
    /\ UNCHANGED <<phase, proc, cfg, launched, listeners, ptOut, lns, mainVars>>

\* serverHandler: pt.DialOr, then copyLoop
ServerHandler(n) ==
    /\ Running
    /\ sess[n].kind = "server" /\ sess[n].pc = "start"
    /\ \E dialOk \in BOOLEAN :
         sess' = [sess EXCEPT ![n] = IF dialOk THEN CopyLoopStart([@ EXCEPT !.conns.dialed = "open"])
                                     ELSE [@ EXCEPT !.pc = "done"]]
    /\ UNCHANGED <<phase, proc, cfg, launched, listeners, ptOut, lns, mainVars>>

\* the peer of an endpoint closes its stream (how = "eof") or the
\* connection breaks (how = "err")
EndpointEvent(n, side, how) ==
    /\ Running
    /\ sess[n].pc = "relay" /\ sess[n].ep[side] = "live"
    /\ sess' = [sess EXCEPT ![n].ep[side] = how]
    /\ UNCHANGED <<phase, proc, cfg, launched, listeners, ptOut, lns, mainVars>>

\* a copy goroutine that sends its result on errChan twice before wg.Done()
CopyTaskSendsTwice(n, dir) ==
    /\ Running
    /\ sess[n].pc = "relay" /\ sess[n].task[dir] = "copy"
    /\ Len(sess[n].errChan) + 2 <= ErrChanCap
    /\ \E r \in CopyResults(sess[n], dir) :
         sess' = [sess EXCEPT ![n].task[dir] = "done",
                              ![n].res[dir] = r,
                              ![n].errChan = @ \o <<r, r>>,
                              ![n].wg = @ - 1]
    /\ UNCHANGED <<phase, proc, cfg, launched, listeners, ptOut, lns, mainVars>>

\* a copy goroutine: io.Copy returns r, errChan <- r (which waits while the
\* channel is full), then the deferred wg.Done()
CopyTask(n, dir) ==
    /\ Running
    /\ sess[n].pc = "relay" /\ sess[n].task[dir] = "copy"
    /\ Len(sess[n].errChan) < ErrChanCap
    /\ \E r \in CopyResults(sess[n], dir) :
         sess' = [sess EXCEPT ![n].task[dir] = "done",
                              ![n].res[dir] = r,
                              ![n].errChan = Append(@, r),
                              ![n].wg = @ - 1]
    /\ UNCHANGED <<phase, proc, cfg, launched, listeners, ptOut, lns, mainVars>>

\* copyLoop with wg.Add(1): wg.Wait() returns after the first wg.Done()
CopyLoopWaitFirst(n) ==
    /\ Running
    /\ sess[n].pc = "relay" /\ sess[n].wg <= 1
    /\ sess' = [sess EXCEPT ![n] = CopyLoopReturn(@)]
    /\ UNCHANGED <<phase, proc, cfg, launched, listeners, ptOut, lns, mainVars>>

\* copyLoop: wg.Wait() returns, copyLoop returns, the handler logs and returns
CopyLoopWait(n) ==
    /\ Running
    /\ sess[n].pc = "relay" /\ sess[n].wg = 0
    /\ sess' = [sess EXCEPT ![n] = CopyLoopReturn(@)]
    /\ UNCHANGED <<phase, proc, cfg, launched, listeners, ptOut, lns, mainVars>>

Dirs == {"ab", "ba"}
Sides == {"a", "b"}
AcceptErrors == {"temporary", "permanent", "other"}

\* the steps of the program's goroutines for session n, once in copyLoop
RelayStep(n) ==
    \/ \E dir \in Dirs : CopyTask(n, dir)
    \/ CopyLoopWait(n)

Next ==
    \/ ClientSetupCall
    \/ ServerSetupCall
    \/ \E i \in DOMAIN lns : AcceptConn(i)
    \/ \E i \in DOMAIN lns, e \in AcceptErrors : AcceptError(i, e)
    \/ \E n \in DOMAIN sess : ClientHandshake(n)
    \/ \E n \in DOMAIN sess : ClientDial(n)
    \/ \E n \in DOMAIN sess : ClientReply(n)
    \/ \E n \in DOMAIN sess : ServerHandler(n)
    \/ \E n \in DOMAIN sess, side \in Sides, how \in {"eof", "err"} : EndpointEvent(n, side, how)
    \/ \E n \in DOMAIN sess : RelayStep(n)

Spec == Init /\ [][Next]_vars

SetupNext ==
    \/ ClientSetupCall
    \/ ServerSetupCall

SetupSpec == SetupInit /\ [][SetupNext]_vars

\* ----------------------------------------------------------- main's run
BindaddrObfs2 == <<"obfs2", "-", "127.0.0.1:2222">>
BindaddrShadow == <<"shadow", "-", "127.0.0.1:2223">>

\* the -bindaddr values of the model: empty, one entry, two entries, an entry
\* without "-", a well-formed entry followed by one without "-", an entry
\* whose host holds a "-"
BindaddrLists ==
    {<<>>, BindaddrObfs2, BindaddrShadow, BindaddrObfs2 \o <<",">> \o BindaddrShadow,
     <<"obfs2">>, BindaddrObfs2 \o <<",", "shadow">>,
     <<"obfs2", "-", "my", "-", "host:2222">>}

\* what every run of main reads, whatever the role
CommonFlags ==
    [showVer : BOOLEAN, stateDirOk : BOOLEAN, options : {"", "shadowOpts", "{"},
     optionsFile : {"", "shadow.json"},
     transparent : BOOLEAN, udp : BOOLEAN, targetValid : BOOLEAN,
     exitOnStdinClose : BOOLEAN]

\* the command lines of a client: -client, neither role, or both roles
ClientFlags ==
    [clientMode : BOOLEAN, serverMode : BOOLEAN,
     target : {<<>>, <<"127.0.0.1:3333">>},
     transportsList : {<<"obfs2", ",", "shadow">>, <<"obfs2">>, <<"*">>},
     proxy : {"", "socks5://127.0.0.1:9050", "ftp://127.0.0.1"},
     socksAddr : {Addr("127.0.0.1", 0), Addr("127.0.0.1", 1080)},
     bindAddr : {<<>>}, extorport : {<<>>}, authcookie : {""}]

\* the command lines of a server
ServerFlags ==
    [clientMode : {FALSE}, serverMode : {TRUE},
     target : {<<>>, <<"127.0.0.1:3333">>, <<"backend.example:3333">>},
     transportsList : {<<"obfs2", ",", "shadow">>, <<"obfs2">>},
     proxy : {""}, socksAddr : {Addr("127.0.0.1", 0)},
     bindAddr : BindaddrLists,
     extorport : {<<>>, <<"127.0.0.1:4444">>, <<"extor.example:4444">>},
     authcookie : {"", "cookie"}]

Merge(f, g) == [k \in DOMAIN f \cup DOMAIN g |-> IF k \in DOMAIN f THEN f[k] ELSE g[k]]

FlagSpace == {Merge(c, r) : c \in CommonFlags, r \in ClientFlags \cup ServerFlags}

NoConfig ==
    [role |-> "none", socksAddr |-> Addr("127.0.0.1", 0), proxyURI |-> "nil", names |-> <<>>,
     options |-> "", Bindaddrs |-> <<>>]

MainInit ==
    /\ phase = "args"
    /\ proc = "running"
    /\ cfg = NoConfig
    /\ launched = FALSE
    /\ listeners = <<>>
    /\ ptOut = <<>>
    /\ lns = <<>>
    /\ sess = <<>>
    /\ mpc = "start"
    /\ flags \in FlagSpace
    /\ mainst = MainState

\* main: the validation of the command line
MainValidate ==
    /\ mpc = "start"
    /\ mainst' = Validate(flags)
    /\ mpc' = IF mainst'.exited THEN "exited" ELSE "validated"
    /\ UNCHANGED <<flags, socksVars>>

\* main: the client's names, then the mode's ClientSetup
MainClientSetup ==
    /\ mpc = "validated" /\ mainst.isClient
    /\ LET g == getClientNames(flags.transportsList, flags.proxy)
       IN IF g.err
          THEN /\ mainst' = Return(mainst, "must specify -version and -transports")
               /\ UNCHANGED socksVars
          ELSE IF mainst.mode = socks5
          THEN \E envFail \in SUBSET (1 .. Len(g.names)) :
                 LET st == ClientSetup(flags.socksAddr, g.names, envFail)
                 IN /\ cfg' = [NoConfig EXCEPT !.role = "client", !.socksAddr = flags.socksAddr,
                                               !.proxyURI = g.clientProxy, !.names = g.names,
                                               !.options = mainst.options]
                    /\ launched' = st.launched
                    /\ listeners' = st.listeners
                    /\ ptOut' = st.ptOut
                    /\ lns' = st.lns
                    /\ phase' = "serving"
                    /\ mainst' = AfterSetup(mainst, "pt_socks5.ClientSetup", st.launched)
                    /\ UNCHANGED <<proc, sess>>
          ELSE \E isLaunched \in BOOLEAN :
                 /\ mainst' = AfterSetup(mainst, "ClientSetup", isLaunched)
                 /\ UNCHANGED socksVars
    /\ mpc' = IF mainst'.exited THEN "exited" ELSE "serving"
    /\ UNCHANGED flags

\* main: getServerInfo, then the mode's ServerSetup
MainServerSetup ==
    /\ mpc = "validated" /\ ~mainst.isClient
    /\ LET b == getServerBindaddrs(flags.bindAddr, mainst.options, flags.transportsList)
           info == getServerInfo(flags.bindAddr, mainst.options, flags.transportsList,
                                 flags.target, flags.extorport, flags.authcookie)
           got == [mainst EXCEPT !.bindaddrs = b, !.info = info]
       IN IF mainst.mode = socks5
          THEN LET st == ServerSetup(info, mainst.options)
               IN /\ cfg' = [NoConfig EXCEPT !.role = "server", !.Bindaddrs = info.Bindaddrs,
                                             !.options = mainst.options]
                  /\ launched' = st.launched
                  /\ listeners' = st.listeners
                  /\ ptOut' = st.ptOut
                  /\ lns' = st.lns
                  /\ phase' = "serving"
                  /\ mainst' = AfterSetup(got, "pt_socks5.ServerSetup", st.launched)
                  /\ UNCHANGED <<proc, sess>>
          ELSE \E isLaunched \in BOOLEAN :
                 /\ mainst' = AfterSetup(got, "ServerSetup", isLaunched)
                 /\ UNCHANGED socksVars
    /\ mpc' = IF mainst'.exited THEN "exited" ELSE "serving"
    /\ UNCHANGED flags

\* main: io.Copy(ioutil.Discard, os.Stdin) returns, os.Exit(-1)
MainStdinClosed ==
    /\ mpc = "serving" /\ flags.exitOnStdinClose
    /\ mainst' = Exit(mainst, -1)
    /\ mpc' = "exited"
    /\ UNCHANGED <<flags, socksVars>>

MainNext ==
    \/ MainValidate
    \/ MainClientSetup
    \/ MainServerSetup
    \/ MainStdinClosed

MainSpec == MainInit /\ [][MainNext]_vars


\* the steps of the goroutines of session n, guarded for fairness
SessionProgress(n) == n \in DOMAIN sess /\ RelayStep(n)

\* the scheduler runs every goroutine that can take its next step: a copy
\* goroutine whose io.Copy can return, and copyLoop once wg.Wait() can return
FairSpec == Spec /\ \A n \in 1 .. MaxConns : WF_vars(SessionProgress(n))

\* =============================================================== claims
Other(side) == IF side = "a" THEN "b" ELSE "a"

InRelay(n) == n \in DOMAIN sess /\ sess[n].pc = "relay"

\* copyLoop of session n has returned
Returned(n) == n \in DOMAIN sess /\ sess[n].pc = "done" /\ sess[n].ret # "none"

\* C1: once one endpoint of a relay is at end-of-stream while the other
\* endpoint stays silent and open, copyLoop eventually returns (unless the
\* other endpoint closes or breaks after all, or the process has died).
C1_RelayTerminatesOnEOF ==
    \A n \in 1 .. MaxConns : \A side \in Sides :
        (InRelay(n) /\ sess[n].ep[side] = "eof" /\ sess[n].ep[Other(side)] = "live")
            ~> (Returned(n) \/ proc # "running"
                \/ (n \in DOMAIN sess /\ sess[n].ep[Other(side)] # "live"))

\* what section 4.2 requires of a server transport: its name is in the
\* server registry and each required parameter is present and well formed
ServerResolvable(name, options) ==
    LET parsed == ParsePT2ClientParameters(options)
        args == parsed.args
    IN /\ ~parsed.err
       /\ CASE name = <<"obfs2">> -> TRUE
            [] name = <<"obfs4">> -> /\ HasArg(args, "cert") /\ HasArg(args, "iat-mode")
                                     /\ ~Atoi(args["iat-mode"]).err
            [] name = <<"replicant">> -> HasArg(args, "config")
            [] name = <<"Dust">> -> HasArg(args, "idPath")
            [] name = <<"meeklite">> -> HasArg(args, "Url") /\ HasArg(args, "Front")
            [] name = <<"shadow">> -> HasArg(args, "password") /\ HasArg(args, "cipherName")
            [] OTHER -> FALSE

ServerSetupReturned == phase = "serving" /\ cfg.role = "server"
ClientSetupReturned == phase = "serving" /\ cfg.role = "client"

\* C2: when ServerSetup has returned, every BindSpec was attempted, and
\* launched is true exactly when at least one BindSpec's transport resolves.
C2_ServerSetupSkipsAndContinues ==
    ServerSetupReturned =>
        /\ launched = (\E i \in DOMAIN cfg.Bindaddrs :
                          ServerResolvable(cfg.Bindaddrs[i].MethodName, cfg.options))
        /\ \A i \in DOMAIN cfg.Bindaddrs :
              ServerResolvable(cfg.Bindaddrs[i].MethodName, cfg.options)
                  => \E k \in DOMAIN lns : lns[k].name = cfg.Bindaddrs[i].MethodName

\* C3: a step of an accept loop changes that loop's listener only: after a
\* transient error the loop is still accepting on an open listener, after a
\* permanent error the loop has returned and its listener is closed; the other
\* listeners, the sessions and the process are as before.
C3_AcceptLoopErrors ==
    [][(phase = "serving" /\ lns' # lns) =>
          \E i \in DOMAIN lns :
              /\ \A j \in DOMAIN lns : j # i => lns'[j] = lns[j]
              /\ sess' = sess /\ proc' = proc
              /\ \/ lns'[i].loop = "accepting" /\ lns'[i].open /\ lns'[i].erred
                 \/ lns'[i].loop = "returned" /\ ~lns'[i].open]_vars

\* a step of the client handler of session n
ClientHandlerStep(n) ==
    /\ n \in DOMAIN sess /\ sess[n].kind = "client"
    /\ ClientHandshake(n) \/ ClientDial(n) \/ ClientReply(n) \/ RelayStep(n)

\* C4: no step of a client handler ends the process, changes a listener or
\* its accept loop, or touches another session.
C4_ClientHandlerFailuresContained ==
    [][\A n \in DOMAIN sess : ClientHandlerStep(n) =>
          /\ proc' = "running"
          /\ lns' = lns
          /\ \A m \in DOMAIN sess : m # n => sess'[m] = sess[m]]_vars

\* copyLoop was entered by session n
RelayEntered(s) == s.task["ab"] # "idle"

\* C5: in a client session, relay is entered only after the success reply was
\* sent without error, at most one reply is ever sent, and no reply is sent
\* once relay has begun.
C5_ReplyBeforeRelay ==
    /\ [](\A n \in DOMAIN sess : sess[n].kind = "client" =>
            /\ Len(sess[n].replies) <= 1
            /\ RelayEntered(sess[n]) => sess[n].replies = <<Reply("ReplySucceeded", TRUE)>>)
    /\ [][\A n \in DOMAIN sess :
            (sess[n].kind = "client" /\ RelayEntered(sess[n]))
                => sess'[n].replies = sess[n].replies]_vars

\* C5's case: a client session that replied, relayed and returned
C5_Witness ==
    \E n \in DOMAIN sess :
        /\ sess[n].kind = "client" /\ sess[n].pc = "done"
        /\ RelayEntered(sess[n]) /\ sess[n].ret # "none"
        /\ Len(sess[n].replies) = 1

\* the status lines that report on a transport name
MethodLines == {"CMETHOD", "CMETHOD-ERROR"}

\* C6: when ClientSetup has returned, the status protocol holds one line per
\* name, in the order of the names (CMETHOD for a listener, CMETHOD-ERROR for
\* a failed bind), then the single CMETHODS DONE; each CMETHOD has its
\* listener, and launched is true exactly when a listener was started.
C6_ClientSetupAttemptsAll ==
    ClientSetupReturned =>
        /\ Len(ptOut) = Len(cfg.names) + 1
        /\ \A i \in 1 .. Len(cfg.names) :
              ptOut[i].name = cfg.names[i] /\ ptOut[i].line \in MethodLines
        /\ ptOut[Len(ptOut)].line = "CMETHODS DONE"
        /\ Cardinality({i \in DOMAIN ptOut : ptOut[i].line = "CMETHODS DONE"}) = 1
        /\ Len(lns) = Cardinality({i \in DOMAIN ptOut : ptOut[i].line = "CMETHOD"})
        /\ \A i \in 1 .. Len(cfg.names) :
              ptOut[i].line = "CMETHOD" <=> \E k \in DOMAIN lns : lns[k].name = cfg.names[i]
        /\ launched = (Len(lns) >= 1)
        /\ Len(listeners) = Len(lns)

\* C6's case: the bind for the first name failed and the second name still
\* got its listener
C6_Witness ==
    /\ ClientSetupReturned
    /\ Len(cfg.names) = 2
    /\ ptOut[1].line = "CMETHOD-ERROR"
    /\ ptOut[2].line = "CMETHOD"
    /\ launched

\* C7: with two names and the fixed address 127.0.0.1:1080, and no bind
\* refused by the environment, ClientSetup opens two listeners, one per name,
\* and every session runs under the name of the listener that accepted it.
C7_TwoListenersOnFixedAddress ==
    /\ (/\ ClientSetupReturned
        /\ Len(cfg.names) = 2
        /\ cfg.socksAddr = Addr("127.0.0.1", 1080)
        /\ \A i \in DOMAIN ptOut : ptOut[i].err # "refused by the environment")
           => /\ Len(listeners) = 2
              /\ \A k \in 1 .. 2 : lns[listeners[k]].name = cfg.names[k]
    /\ \A n \in DOMAIN sess : sess[n].name = lns[sess[n].ln].name

BothOptions == flags.options # "" /\ flags.optionsFile # ""
ConflictMessage == "cannot specify -options and -optionsFile at the same time"

\* C8 as claimed: with both -options and -optionsFile, main always ends with
\* a fatal error (a non-zero exit) and no setup routine or listener.
C8_BothOptionsAlwaysFatal ==
    (mpc # "start" /\ BothOptions) =>
        /\ mainst.exited /\ mainst.code # 0
        /\ mainst.setup = "none" /\ lns = <<>>

\* C8, amended: with both -options and -optionsFile, main ends before any
\* setup routine or listener; with -showVersion it exits 0, otherwise it ends
\* with a fatal error and exit code 1, which is the options conflict unless
\* the state directory, checked first, could not be made.
C8_BothOptionsFatalUnlessShowVersion ==
    (mpc # "start" /\ BothOptions) =>
        /\ mpc = "exited" /\ mainst.exited
        /\ mainst.setup = "none" /\ lns = <<>> /\ phase = "args"
        /\ flags.showVer => mainst.code = 0
        /\ ~flags.showVer => /\ mainst.code = 1
                             /\ mainst.how \in {ConflictMessage, "No state directory"}
                             /\ flags.stateDirOk => mainst.how = ConflictMessage

\* C8's case: a server in transparent mode given both options, ended by the
\* conflict
C8_Witness ==
    /\ mpc = "exited" /\ BothOptions
    /\ ~flags.clientMode /\ flags.serverMode /\ flags.transparent
    /\ mainst.how = ConflictMessage /\ mainst.code = 1

\* getServerBindaddrs was called by main
BindaddrsParsed == mpc # "start" /\ mpc # "validated" /\ mainst.setup \in {"pt_socks5.ServerSetup", "ServerSetup"}

BindEntries == Split(flags.bindAddr, ",")

\* an entry "name-host:port": a name, the separator, an address that resolves
WellFormedEntry(e) ==
    /\ Len(e) = 3 /\ e[2] = "-" /\ e[1] \notin {"-", ","}
    /\ ~ResolveAddr(<<e[3]>>).err

LacksDash(e) == \A k \in DOMAIN e : e[k] # "-"

\* the BindSpec of a well-formed entry
BindSpecOf(e) == [MethodName |-> <<e[1]>>, Addr |-> ResolveAddr(<<e[3]>>).addr]

NoDashError(e) == BindError("doesn't contain \"-\"", e)

\* the options handed to getServerBindaddrs parse
OptionsParse == ~(mainst.options # "" /\ ParsePT2ServerParameters(mainst.options).err)

\* C9 as claimed, for options that parse: in a list of well-formed entries,
\* every entry yields its BindSpec; an entry without "-" that follows
\* well-formed entries only makes the parse fail with an error naming it.
C9_EveryEntryParsed ==
    (BindaddrsParsed /\ OptionsParse) =>
        /\ (\A i \in DOMAIN BindEntries : WellFormedEntry(BindEntries[i])) =>
              \A i \in DOMAIN BindEntries :
                  \E k \in DOMAIN mainst.bindaddrs.result :
                      mainst.bindaddrs.result[k] = BindSpecOf(BindEntries[i])
        /\ \A i \in DOMAIN BindEntries :
              (/\ LacksDash(BindEntries[i])
               /\ \A j \in 1 .. (i - 1) : WellFormedEntry(BindEntries[j]))
                  => mainst.bindaddrs.err = NoDashError(BindEntries[i])

Listed(e) == <<e[1]>> \in Range(Split(flags.transportsList, ","))

\* C9, amended: when the options parse and every entry of -bindaddr is well
\* formed, getServerBindaddrs yields, in order, the BindSpec of each entry
\* whose name is listed in -transports, and nothing else; when an entry lacks
\* "-" and the entries before it are well formed, the parse fails with the
\* error naming that entry and yields no BindSpec.
C9_WellFormedListParsed ==
    (BindaddrsParsed /\ OptionsParse) =>
        /\ (\A i \in DOMAIN BindEntries : WellFormedEntry(BindEntries[i])) =>
              /\ mainst.bindaddrs.err = NoError
              /\ \A i \in DOMAIN BindEntries : Listed(BindEntries[i]) =>
                    \E k \in DOMAIN mainst.bindaddrs.result :
                        mainst.bindaddrs.result[k] = BindSpecOf(BindEntries[i])
              /\ \A k \in DOMAIN mainst.bindaddrs.result :
                    \E i \in DOMAIN BindEntries :
                        /\ Listed(BindEntries[i])
                        /\ mainst.bindaddrs.result[k] = BindSpecOf(BindEntries[i])
              /\ Len(mainst.bindaddrs.result)
                    = Cardinality({i \in DOMAIN BindEntries : Listed(BindEntries[i])})
        /\ \A i \in DOMAIN BindEntries :
              (/\ LacksDash(BindEntries[i])
               /\ \A j \in 1 .. (i - 1) : WellFormedEntry(BindEntries[j]))
                  => /\ mainst.bindaddrs.err = NoDashError(BindEntries[i])
                     /\ mainst.bindaddrs.result = <<>>

\* C9's case: two well-formed entries, both listed, both parsed
C9_Witness ==
    /\ BindaddrsParsed /\ OptionsParse
    /\ Len(BindEntries) = 2
    /\ \A i \in DOMAIN BindEntries : WellFormedEntry(BindEntries[i])
    /\ Len(mainst.bindaddrs.result) = 2
    /\ mainst.bindaddrs.result[2].MethodName = <<"shadow">>

AllModes == {socks5, transparentTCP, transparentUDP, stunUDP}

\* main has passed mode := determineMode(*transparent, *udp)
ModeDetermined == mpc # "start" /\ mainst.how \notin {"os.Exit", "No state directory", ConflictMessage, "validationError"}

\* C10: the mode main works with is the one the table gives for -transparent
\* and -udp, and determineMode yields one of the four modes for any flags.
C10_ModeTable ==
    /\ \A t \in BOOLEAN, u \in BOOLEAN : determineMode(t, u) \in AllModes
    /\ ModeDetermined =>
          /\ (~flags.transparent /\ ~flags.udp) => mainst.mode = socks5
          /\ (flags.transparent /\ ~flags.udp) => mainst.mode = transparentTCP
          /\ (~flags.transparent /\ flags.udp) => mainst.mode = stunUDP
          /\ (flags.transparent /\ flags.udp) => mainst.mode = transparentUDP

\* C10's case: -transparent -udp, validated, in transparentUDP mode
C10_Witness ==
    /\ mpc = "validated"
    /\ flags.transparent /\ flags.udp
    /\ mainst.mode = transparentUDP

\* C11: when the process has ended without -showVersion and without a
\* launched listener, its exit code is not 0.
C11_NoListenerExitsNonZero ==
    (mainst.exited /\ ~flags.showVer /\ ~mainst.launched) => mainst.code # 0

Reverse(q) == [i \in 1 .. Len(q) |-> q[Len(q) + 1 - i]]

\* what copyLoop of session s would return had its two copy tasks finished
\* with the same outcomes in the other order
OtherOrderReturn(s) == CopyLoopReturn([s EXCEPT !.errChan = Reverse(@)]).ret

\* C12 as claimed: the value copyLoop returns is the value it would return had
\* the two tasks, with the same outcomes, finished in the other order.
C12_ReturnIndependentOfOrder ==
    [][\A n \in DOMAIN sess : CopyLoopWait(n) =>
          sess'[n].ret = OtherOrderReturn(sess[n])]_vars

\* C12, amended: copyLoop returns the outcome of the task that finished
\* first; the other order of the same two outcomes gives the same value
\* exactly when the two outcomes are equal.
C12_ReturnIsFirstFinished ==
    [][\A n \in DOMAIN sess : CopyLoopWait(n) =>
          /\ Len(sess[n].errChan) = 2
          /\ sess'[n].ret = sess[n].errChan[1]
          /\ (sess'[n].ret = OtherOrderReturn(sess[n]))
                <=> (sess[n].errChan[1] = sess[n].errChan[2])]_vars

\* C12's case: copyLoop returned after a->b and b->a ended with different
\* outcomes, b->a first
C12_Witness ==
    \E n \in DOMAIN sess :
        /\ Returned(n)
        /\ sess[n].res["ab"] = "nil" /\ sess[n].res["ba"] = "read error"
        /\ sess[n].ret = "read error" /\ sess[n].errChan = <<"nil">>

\* C13: when ServerSetup has returned, launched is true exactly when an accept
\* loop was started, and the returned listeners are exactly the listeners
\* whose accept loops were started (none when launched is false).
C13_LaunchedIffListenerStarted ==
    ServerSetupReturned =>
        /\ launched = (Len(lns) >= 1)
        /\ Len(listeners) = Len(lns)
        /\ \A k \in DOMAIN listeners : listeners[k] = k

\* C14: when copyLoop has returned, both copy tasks have ended, each with an
\* outcome that it sent on the channel (copyLoop took one of the two values).
C14_BothTasksJoined ==
    \A n \in DOMAIN sess : Returned(n) =>
        /\ \A dir \in Dirs : sess[n].task[dir] = "done" /\ sess[n].res[dir] # "none"
        /\ sess[n].wg = 0
        /\ Len(sess[n].errChan) = 1

\* C14's case: a server session whose copyLoop returned after both tasks
\* ended, one with an error
C14_Witness ==
    \E n \in DOMAIN sess :
        /\ sess[n].kind = "server" /\ Returned(n)
        /\ sess[n].res["ab"] = "write error" /\ sess[n].res["ba"] = "read error"

\* the outcomes of the two copy tasks of a returned session, in the order in
\* which they were sent on errChan
CompletionOrder(s) == <<s.ret>> \o s.errChan

\* the errors among outcomes q, in order
Errors(q) == SelectSeq(q, LAMBDA r : r # "nil")

\* C15: when copyLoop has returned and a copy task ended with an error,
\* copyLoop returned the error of the earliest-finishing task that failed;
\* it returned nil only when no task ended with an error.
C15_ReturnsFirstError ==
    \A n \in DOMAIN sess : Returned(n) =>
        LET errs == Errors(CompletionOrder(sess[n]))
        IN /\ errs # <<>> => sess[n].ret = Head(errs)
           /\ sess[n].ret = "nil" => errs = <<>>

\* the handler of session s has returned
HandlerReturned(s) == s.pc = "done"

\* C16: after a handler that entered relay has returned, the accepted
\* connection and the dialed connection are both closed.
C16_BothConnsClosedAfterRelay ==
    \A n \in DOMAIN sess :
        (HandlerReturned(sess[n]) /\ RelayEntered(sess[n])) =>
            /\ sess[n].conns.accepted = "closed"
            /\ sess[n].conns.dialed = "closed"

C18_ConnClosedOnEarlyReturn ==
    \A n \in DOMAIN sess :
        (sess[n].kind = "client" /\ HandlerReturned(sess[n]) /\ ~RelayEntered(sess[n]))
            => sess[n].conns.accepted = "closed"

\* C19: when a server handler has returned after pt.DialOr failed (nothing
\* was dialed), relay was not entered and the accepted connection is closed.
C19_ServerDialOrFailure ==
    \A n \in DOMAIN sess :
        (sess[n].kind = "server" /\ HandlerReturned(sess[n]) /\ sess[n].conns.dialed = "none")
            => /\ ~RelayEntered(sess[n])
               /\ sess[n].conns.accepted = "closed"

\* C20: when a proxy URL is configured, the transport on which a client
\* handler calls Dial holds the proxy dialer derived from that URL.
C20_ProxyDialerUsed ==
    \A n \in DOMAIN sess :
        (/\ sess[n].kind = "client" /\ cfg.proxyURI # "nil"
         /\ sess[n].pc = "dial" \/ sess[n].conns.dialed # "none"
         /\ ~sess[n].transport.isNil)
            => /\ sess[n].transport.dialer = FromURL(cfg.proxyURI).dialer
               /\ sess[n].transport.dialer # "nil"

\* C21: when a client handler has passed a handshake carrying the field f and
\* goes on to dial, the arguments it resolved the transport with are those of
\* f when the options string is empty, and those of the options otherwise.
C21_SocksArgsUsedWithoutOptions ==
    [][\A n \in DOMAIN sess, f \in SocksFields :
          (ClientHandshakeWith(n, TRUE, f) /\ sess'[n].pc = "dial") =>
              /\ cfg.options = "" =>
                    sess'[n].args = ParsePT2ClientParameters(f).args
              /\ cfg.options # "" =>
                    sess'[n].args = ParseOptions(cfg.options).args]_vars

\* C22: when main has built the server configuration from bindaddrs that
\* parse and -extorport resolves, the configuration holds the extended
\* backend address, and the auth-cookie path when -authcookie is given,
\* whatever -target is.
C22_ExtorportAlwaysSet ==
    (/\ BindaddrsParsed /\ mainst.bindaddrs.err = NoError
     /\ ~ResolveAddr(flags.extorport).err) =>
        /\ mainst.info.ExtendedOrAddr = ResolveAddr(flags.extorport).addr
        /\ flags.authcookie # "" => mainst.info.AuthCookiePath = flags.authcookie

\* ServerSetup called Listen for the BindSpec b
ListenCalledFor(b) ==
    \E k \in DOMAIN lns :
        lns[k].kind = "server" /\ lns[k].name = b.MethodName /\ lns[k].addr = b.Addr

\* C23: when ServerSetup has returned, Listen was called for the first
\* BindSpec (the one that is always attempted) exactly when its transport is
\* in the server registry with every required parameter present and well
\* formed; and no listener exists for a transport that does not resolve.
C23_ServerResolutionExact ==
    (ServerSetupReturned /\ Len(cfg.Bindaddrs) >= 1) =>
        /\ ListenCalledFor(cfg.Bindaddrs[1])
              <=> ServerResolvable(cfg.Bindaddrs[1].MethodName, cfg.options)
        /\ \A k \in DOMAIN lns : ServerResolvable(lns[k].name, cfg.options)

\* the copy tasks of session s that have ended
TasksDone(s) == {dir \in Dirs : s.task[dir] = "done"}

\* C24: while copyLoop runs, errChan holds one value per ended task and never
\* more than its capacity, and a task that is still copying finds room for
\* its send; every ended task has signalled the join.
C24_ErrChanNeverBlocks ==
    \A n \in DOMAIN sess : sess[n].pc = "relay" =>
        /\ Len(sess[n].errChan) = Cardinality(TasksDone(sess[n]))
        /\ Len(sess[n].errChan) <= ErrChanCap
        /\ sess[n].wg = 2 - Cardinality(TasksDone(sess[n]))
        /\ \A dir \in Dirs : sess[n].task[dir] = "copy" => Len(sess[n].errChan) < ErrChanCap

\* C24's case: both tasks have sent, the channel is full, and copyLoop has
\* not yet read from it
C24_Witness ==
    \E n \in DOMAIN sess :
        /\ sess[n].pc = "relay"
        /\ TasksDone(sess[n]) = Dirs
        /\ Len(sess[n].errChan) = ErrChanCap

\* -bindaddr holds an entry that is not "name-host:port" with a resolvable
\* address
SomeEntryMalformed == \E i \in DOMAIN BindEntries : ~WellFormedEntry(BindEntries[i])

\* C25: when -bindaddr holds a malformed entry (and the options parse),
\* getServerBindaddrs fails and returns no BindSpec, getServerInfo yields the
\* empty server configuration, and pt_socks5.ServerSetup launches no
\* listener, so main exits with -1.
C25_MalformedEntryVoidsAll ==
    (BindaddrsParsed /\ OptionsParse /\ SomeEntryMalformed) =>
        /\ mainst.bindaddrs.err # NoError
        /\ mainst.bindaddrs.result = <<>>
        /\ mainst.info = EmptyServerInfo
        /\ mainst.setup = "pt_socks5.ServerSetup" =>
              /\ ~mainst.launched /\ lns = <<>> /\ listeners = <<>>
              /\ mainst.exited /\ mainst.code = -1

\* C25's case: a well-formed entry followed by one without "-", in socks5
\* mode with a target that resolves: nothing parsed, nothing launched
C25_Witness ==
    /\ BindaddrsParsed /\ OptionsParse
    /\ flags.bindAddr = BindaddrObfs2 \o <<",", "shadow">>
    /\ flags.target = <<"127.0.0.1:3333">>
    /\ mainst.setup = "pt_socks5.ServerSetup"
    /\ mainst.bindaddrs.result = <<>> /\ mainst.info = EmptyServerInfo
    /\ ~mainst.launched /\ mainst.exited

====
